---- MODULE Spec2Model ----
(***************************************************************************)
(* A model of the cloaked_req native request engine                        *)
(* (native/cloaked_req_native/src/lib.rs): the client pool behind an       *)
(* RwLock, the panic boundary, the cookie domain validator, the bounded    *)
(* body reader and the request executor.                                   *)
(***************************************************************************)
EXTENDS Integers, Sequences, FiniteSets, TLC

VARIABLES
    cache,          \* CLIENT_CACHE: the HashMap, a set of [key, client] entries
    lock_writer,    \* CLIENT_CACHE's RwLock: the thread holding the write guard, or 0
    lock_readers,   \* CLIENT_CACHE's RwLock: the threads holding a read guard
    lock_poisoned,  \* CLIENT_CACHE's RwLock: poisoned by a panic under the write guard
    pc,             \* per thread: the position in the call
    req,            \* per thread: the arguments of the call in progress
    result,         \* per thread: what run_with_panic_protection returned last
    calls,          \* number of calls started (bounded by MaxCalls, MaxExecutions)
    built,          \* history: every [key, client] that builder.build() constructed
    returned,       \* history: every client handed back, with the call's arguments
    faults,         \* history, per thread: the payload of the panic raised in its last call
    ck_header,      \* is_cookie_domain_safe: header_bytes
    ck_attrs,       \* the attributes ck_header was written from
    ck_host,        \* is_cookie_domain_safe: request_host
    ck_verdict,     \* is_cookie_domain_safe: how the call ended
    rb_stream,      \* read_body_with_limit: what response.chunk() yields, in order
    rb_content_length, \* read_body_with_limit: the parsed content-length header
    rb_max_size,    \* read_body_with_limit: max_size
    rb_memory,      \* the bytes of memory an allocation can get
    rb_result,      \* read_body_with_limit: how the call ended
    ex_client,      \* per thread: the client execute_request resolved
    ex_builder,     \* per thread: the request builder of execute_request
    ex_response,    \* per thread: the response builder.send() gave
    jar             \* the cookie jar: the headers set_cookies was handed

pool_vars == <<cache, lock_writer, lock_readers, lock_poisoned, built, returned>>
call_vars == <<pc, req, result, calls, faults>>
cookie_vars == <<ck_header, ck_attrs, ck_host, ck_verdict>>
body_vars == <<rb_stream, rb_content_length, rb_max_size, rb_memory, rb_result>>
pure_vars == <<cookie_vars, body_vars>>
exec_vars == <<ex_client, ex_builder, ex_response, jar>>

vars == <<pool_vars, call_vars, cookie_vars, body_vars, exec_vars>>

(***************************************************************************)
(* Bounds of the model.                                                    *)
(***************************************************************************)
NumThreads == 2
MaxCalls == 3
MaxAttrs == 2
MaxChunks == 3
MaxChunkLen == 2
MaxLimit == 3
MaxSetCookies == 2
MaxExecutions == 2

Threads == 1..NumThreads
NoThread == 0

(***************************************************************************)
(* Option<T>: None is the empty sequence, Some(v) the one-element one.     *)
(***************************************************************************)
None == <<>>
Some(v) == <<v>>
IsSome(o) == Len(o) = 1
Unwrap(o) == o[1]

(***************************************************************************)
(* NativeError and Result.                                                 *)
(***************************************************************************)
NativeError(type_name, message, details) ==
    [type_name |-> type_name, message |-> message, details |-> details]

Ok(v) == [tag |-> "Ok", value |-> v]
Err(e) == [tag |-> "Err", error |-> e]
Pending == [tag |-> "Pending"]

IsOk(r) == r.tag = "Ok"
IsErr(r) == r.tag = "Err"

(***************************************************************************)
(* Emulation profiles.  serde_json::from_value resolves a name to an       *)
(* Emulation when wreq_util knows it; "unknown_browser" is the name the    *)
(* tests use for one it does not know.                                     *)
(***************************************************************************)
KnownProfiles == {"chrome_136"}
ProfileNames == KnownProfiles \cup {"unknown_browser"}
EmulationArgs == {None} \cup {Some(p) : p \in ProfileNames}

(***************************************************************************)
(* get_or_build_client: the cache key and the HashMap operations.          *)
(***************************************************************************)
\* A key that forgets the verification policy.
ClientKeyProfileOnly(emulation, insecure_skip_verify) ==
    [emulation |-> emulation, insecure_skip_verify |-> FALSE]

ClientKey(emulation, insecure_skip_verify) ==
    [emulation |-> emulation, insecure_skip_verify |-> insecure_skip_verify]

CacheGet(map, key) ==
    IF \E e \in map : e.key = key
        THEN Some((CHOOSE e \in map : e.key = key).client)
        ELSE None

\* An insert that evicts the other keys.
CacheInsertEvicting(map, key, client) == {[key |-> key, client |-> client]}

\* An insert that is lost.
CacheInsertLost(map, key, client) == map

CacheInsert(map, key, client) ==
    {e \in map : e.key # key} \cup {[key |-> key, client |-> client]}

(***************************************************************************)
(* The builder: Client::builder() starts with no emulation and with        *)
(* certificate verification on; .emulation(profile) and                    *)
(* .cert_verification(false) change exactly those settings.                *)
(***************************************************************************)
ClientBuilder == [emulation |-> None, cert_verification |-> TRUE]

ConfigureBuilder(emulation, insecure_skip_verify) ==
    LET b1 == IF IsSome(emulation)
                  THEN [ClientBuilder EXCEPT !.emulation = emulation]
                  ELSE ClientBuilder
    IN  IF insecure_skip_verify
            THEN [b1 EXCEPT !.cert_verification = FALSE]
            ELSE b1

\* The identity of a newly constructed Client: the n-th one built for its key.
NewClientId(history, key) ==
    [key |-> key, serial |-> Cardinality({b \in history : b.key = key}) + 1]

BuildClient(builder, id) ==
    [id |-> id, emulation |-> builder.emulation,
     cert_verification |-> builder.cert_verification]

\* A resolution that takes every name.
ProfileResolvesAlways(profile_name) == TRUE

\* lib.rs:75  serde_json::from_value::<Emulation>(..) is Ok
ProfileResolves(profile_name) == profile_name \in KnownProfiles

UnknownProfileError(profile_name) ==
    NativeError("invalid_request", "unknown emulation profile",
                [reason |-> "profile", value |-> profile_name])

BuildFailedError ==
    NativeError("transport_error", "failed to build HTTP client",
                [reason |-> "build", debug |-> "build"])

(***************************************************************************)
(* RwLock.  read() waits for the writer to leave, write() for everybody.   *)
(* Both return Err(PoisonError) holding the guard when the lock is         *)
(* poisoned; unwrap_or_else(|e| e.into_inner()) takes the guard either     *)
(* way.                                                                    *)
(***************************************************************************)
LockResultGuard(poisoned) == "guard"

\* What .unwrap() on a poisoned lock would panic with.
PoisonError == [type |-> "String", value |-> "PoisonError"]

CanRead == lock_writer = NoThread
CanWrite == lock_writer = NoThread /\ lock_readers = {}

(***************************************************************************)
(* Panic payloads: a String (panic! with a format), a &'static str         *)
(* (panic! with a literal) or any other value (panic_any).                 *)
(***************************************************************************)
PayloadTypes == {"String", "str", "other"}
PanicMessages == {"simulated NIF panic"}
PanicPayloads == [type : PayloadTypes, value : PanicMessages]

(***************************************************************************)
(* run_with_panic_protection: what the Err(panic_info) arm returns.        *)
(***************************************************************************)
\* A conversion that knows String payloads only.
PanicMessageStringOnly(panic_info) ==
    IF panic_info.type = "String" THEN panic_info.value
    ELSE "unknown panic"

PanicMessage(panic_info) ==
    IF panic_info.type = "String" THEN panic_info.value
    ELSE IF panic_info.type = "str" THEN panic_info.value
    ELSE "unknown panic"

run_with_panic_protection(panic_info) ==
    Err(NativeError("nif_panic", PanicMessage(panic_info), [empty |-> TRUE]))

\* A protection that reports every error of the closure as a panic.
ProtectedAsPanic(r) ==
    IF r.tag = "Err"
        THEN Err(NativeError("nif_panic", r.error.message, [empty |-> TRUE]))
        ELSE r

\* lib.rs:108  the Ok(result) arm: what the closure returned
Protected(r) == r

NotCalled == [tag |-> "NotCalled"]
NoHost == [text |-> <<>>, lower |-> <<>>]

(***************************************************************************)
(* Bytes and str.  A byte is a one-character string; "C3" "A9" are the two *)
(* bytes of a two-byte UTF-8 character, "FF" and "FE" bytes that occur in  *)
(* no UTF-8 text.                                                          *)
(***************************************************************************)
UpperLetters == <<"A", "B", "C", "D", "E", "F", "G", "H", "I", "J", "K", "L", "M", "N", "O", "P", "Q", "R", "S", "T", "U", "V", "W", "X", "Y", "Z">>
LowerLetters == <<"a", "b", "c", "d", "e", "f", "g", "h", "i", "j", "k", "l", "m", "n", "o", "p", "q", "r", "s", "t", "u", "v", "w", "x", "y", "z">>

IsLeadByte(b) == b = "C3"
IsContinuationByte(b) == b = "A9"
IsInvalidByte(b) == b \in {"FF", "FE"}

\* A decoding that accepts every byte string.
from_utf8_unchecked(bytes) == TRUE

\* std::str::from_utf8(bytes).is_ok()
from_utf8_ok(bytes) ==
    \A i \in 1..Len(bytes) :
        /\ ~IsInvalidByte(bytes[i])
        /\ IsLeadByte(bytes[i]) => (i < Len(bytes) /\ IsContinuationByte(bytes[i + 1]))
        /\ IsContinuationByte(bytes[i]) => (i > 1 /\ IsLeadByte(bytes[i - 1]))

\* str::is_char_boundary(index), index counted from 0
is_char_boundary(s, index) ==
    \/ index = 0
    \/ index = Len(s)
    \/ index < Len(s) /\ ~IsContinuationByte(s[index + 1])

to_ascii_lowercase(b) ==
    IF \E i \in 1..Len(UpperLetters) : UpperLetters[i] = b
        THEN LowerLetters[CHOOSE i \in 1..Len(UpperLetters) : UpperLetters[i] = b]
        ELSE b

\* str::to_lowercase
to_lowercase(s) == [i \in 1..Len(s) |-> to_ascii_lowercase(s[i])]

\* str::eq_ignore_ascii_case
eq_ignore_ascii_case(a, b) == to_lowercase(a) = to_lowercase(b)

IsWhitespace(b) == b = " "

RECURSIVE trim_start(_)
trim_start(s) ==
    IF s # <<>> /\ IsWhitespace(Head(s)) THEN trim_start(Tail(s)) ELSE s

RECURSIVE trim_end(_)
trim_end(s) ==
    IF s # <<>> /\ IsWhitespace(s[Len(s)])
        THEN trim_end(SubSeq(s, 1, Len(s) - 1))
        ELSE s

\* str::trim
trim(s) == trim_end(trim_start(s))

\* str::trim_start_matches(c): every leading c is removed
RECURSIVE trim_start_matches(_, _)
trim_start_matches(s, c) ==
    IF s # <<>> /\ Head(s) = c THEN trim_start_matches(Tail(s), c) ELSE s

\* str::split(c), collected
RECURSIVE split(_, _)
split(s, c) ==
    IF \E i \in 1..Len(s) : s[i] = c
        THEN LET i == CHOOSE j \in 1..Len(s) :
                          s[j] = c /\ \A k \in 1..(j - 1) : s[k] # c
             IN  <<SubSeq(s, 1, i - 1)>> \o split(SubSeq(s, i + 1, Len(s)), c)
        ELSE <<s>>

\* str::ends_with
ends_with(s, suffix) ==
    /\ Len(suffix) <= Len(s)
    /\ SubSeq(s, Len(s) - Len(suffix) + 1, Len(s)) = suffix

(***************************************************************************)
(* A function either returns a value or panics.                            *)
(***************************************************************************)
Returns(v) == [tag |-> "Returns", value |-> v]
Panics(payload) == [tag |-> "Panics", payload |-> payload]

\* The payload of the panic of a str slice that cuts a character.
CharBoundaryPanic ==
    [type |-> "String", value |-> "byte index 7 is not a char boundary"]

(***************************************************************************)
(* psl::domain: the registrable domain of a name under the public suffix   *)
(* list, None when the name is itself a suffix.  The suffix is the longest *)
(* rule of the list that the name ends with, or its last label when no     *)
(* rule matches.  PublicSuffixList holds the rules the tests name.         *)
(***************************************************************************)
PublicSuffixList == {<<"c", "o", "m">>, <<"u", "k">>, <<"c", "o", ".", "u", "k">>}

RuleMatches(name, rule) ==
    \/ name = rule
    \/ ends_with(name, <<".">> \o rule)

psl_suffix(name) ==
    LET matching == {rule \in PublicSuffixList : RuleMatches(name, rule)}
        labels == split(name, ".")
    IN  IF matching # {}
            THEN CHOOSE rule \in matching : \A r \in matching : Len(r) <= Len(rule)
            ELSE labels[Len(labels)]

psl_domain(name) ==
    LET suffix == psl_suffix(name)
    IN  IF name = <<>> \/ suffix = <<>> \/ Len(name) < Len(suffix) + 2
            THEN None
            ELSE LET labels == split(SubSeq(name, 1, Len(name) - Len(suffix) - 1), ".")
                     root == labels[Len(labels)]
                 IN  Some(root \o <<".">> \o suffix)

(***************************************************************************)
(* extract_cookie_domain (lib.rs:324-336).  find_map visits the attributes *)
(* after the name=value pair in order; attr[..7] panics when byte 7 of the *)
(* attribute is inside a character.                                        *)
(***************************************************************************)
DomainPrefix == <<"d", "o", "m", "a", "i", "n", "=">>
PrefixLen == 7

\* What the find_map closure does with one attribute.
DomainOfAttr(raw) ==
    LET attr == trim(raw)
    IN  IF Len(attr) > PrefixLen
            THEN IF ~is_char_boundary(attr, PrefixLen)
                     THEN Panics(CharBoundaryPanic)
                 ELSE IF eq_ignore_ascii_case(SubSeq(attr, 1, PrefixLen), DomainPrefix)
                     THEN Returns(Some(trim(SubSeq(attr, PrefixLen + 1, Len(attr)))))
                 ELSE Returns(None)
            ELSE Returns(None)

RECURSIVE find_map_domain(_)
find_map_domain(attrs) ==
    IF attrs = <<>>
        THEN Returns(None)
        ELSE LET first == DomainOfAttr(Head(attrs))
             IN  IF first.tag = "Panics" \/ IsSome(first.value)
                     THEN first
                     ELSE find_map_domain(Tail(attrs))

\* .skip(1): the name=value pair is not an attribute
skip_one(parts) == Tail(parts)

extract_cookie_domain(header) == find_map_domain(skip_one(split(header, ";")))

(***************************************************************************)
(* is_cookie_domain_safe (lib.rs:296-321).                                 *)
(***************************************************************************)
\* A suffix match that does not look at the label boundary.
HostMatchesDomainAnywhere(host, effective_domain) ==
    host = effective_domain \/ ends_with(host, effective_domain)

\* lib.rs:317-320
HostMatchesDomain(host, effective_domain) ==
    \/ host = effective_domain
    \/ /\ Len(host) > Len(effective_domain)
       /\ ends_with(host, effective_domain)
       /\ host[Len(host) - Len(effective_domain) - 1 + 1] = "."

\* lib.rs:307-320  the decision once the Domain value is known
DomainIsSafe(domain, request_host) ==
    LET effective_domain == to_lowercase(trim_start_matches(domain, "."))
    IN  IF ~IsSome(psl_domain(effective_domain))
            THEN FALSE
            ELSE HostMatchesDomain(to_lowercase(request_host), effective_domain)

is_cookie_domain_safe(header_bytes, request_host) ==
    IF ~from_utf8_ok(header_bytes)
        THEN Returns(FALSE)
        ELSE LET extracted == extract_cookie_domain(header_bytes)
             IN  IF extracted.tag = "Panics"
                     THEN extracted
                 ELSE IF ~IsSome(extracted.value)
                     THEN Returns(TRUE)
                 ELSE Returns(DomainIsSafe(Unwrap(extracted.value), request_host))

(***************************************************************************)
(* Set-Cookie headers to validate: a name=value pair followed by up to     *)
(* MaxAttrs attributes.  Each attribute is written down with what it is:   *)
(* whether it is a Domain attribute and, if so, its value in normal form   *)
(* and whether that value is a public suffix.                              *)
(***************************************************************************)
Attr(text, is_domain, norm, suffix) ==
    [text |-> text, is_domain |-> is_domain, norm |-> norm, suffix |-> suffix]

AttrDomainExample ==
    Attr(<<" ", "D", "o", "m", "a", "i", "n", "=", "e", "x", "a", "m", "p", "l", "e", ".", "c", "o", "m">>, TRUE, <<"e", "x", "a", "m", "p", "l", "e", ".", "c", "o", "m">>, FALSE)
AttrDomainDotExample ==
    Attr(<<" ", "d", "o", "m", "a", "i", "n", "=", ".", "E", "x", "a", "m", "p", "l", "e", ".", "C", "O", "M">>, TRUE, <<"e", "x", "a", "m", "p", "l", "e", ".", "c", "o", "m">>, FALSE)
AttrDomainDotDotExample ==
    Attr(<<" ", "D", "o", "m", "a", "i", "n", "=", ".", ".", "e", "x", "a", "m", "p", "l", "e", ".", "c", "o", "m">>, TRUE, <<"e", "x", "a", "m", "p", "l", "e", ".", "c", "o", "m">>, FALSE)
AttrDomainCom ==
    Attr(<<" ", "D", "o", "m", "a", "i", "n", "=", "c", "o", "m">>, TRUE, <<"c", "o", "m">>, TRUE)
AttrDomainCoUk ==
    Attr(<<"D", "O", "M", "A", "I", "N", "=", " ", ".", "c", "o", ".", "u", "k", " ">>, TRUE, <<"c", "o", ".", "u", "k">>, TRUE)
AttrDomainEmpty ==
    Attr(<<" ", "D", "o", "m", "a", "i", "n", "=">>, TRUE, <<>>, FALSE)
AttrPath ==
    Attr(<<" ", "P", "a", "t", "h", "=", "/">>, FALSE, <<>>, FALSE)
AttrPathAccent ==
    Attr(<<" ", "P", "a", "t", "h", "=", "/", "C3", "A9">>, FALSE, <<>>, FALSE)
AttrHttpOnly ==
    Attr(<<" ", "H", "t", "t", "p", "O", "n", "l", "y">>, FALSE, <<>>, FALSE)

Attributes ==
    {AttrDomainExample, AttrDomainDotExample, AttrDomainDotDotExample, AttrDomainCom,
     AttrDomainCoUk, AttrDomainEmpty, AttrPath,
     AttrPathAccent, AttrHttpOnly}

NameValues == {<<"x", "=", "1">>, <<"D", "o", "m", "a", "i", "n", "=", "c", "o", "m">>, <<"FF", "FE">>}

\* A request host, written down with its lower-case form.
Host(text, lower) == [text |-> text, lower |-> lower]

RequestHosts == {
    Host(<<"e", "x", "a", "m", "p", "l", "e", ".", "c", "o", "m">>, <<"e", "x", "a", "m", "p", "l", "e", ".", "c", "o", "m">>),
    Host(<<"s", "u", "b", ".", "e", "x", "a", "m", "p", "l", "e", ".", "c", "o", "m">>, <<"s", "u", "b", ".", "e", "x", "a", "m", "p", "l", "e", ".", "c", "o", "m">>),
    Host(<<"n", "o", "t", "e", "x", "a", "m", "p", "l", "e", ".", "c", "o", "m">>, <<"n", "o", "t", "e", "x", "a", "m", "p", "l", "e", ".", "c", "o", "m">>),
    Host(<<"E", "x", "a", "m", "p", "l", "e", ".", "C", "O", "M">>, <<"e", "x", "a", "m", "p", "l", "e", ".", "c", "o", "m">>),
    Host(<<"c", "o", "m">>, <<"c", "o", "m">>),
    Host(<<"s", "h", "o", "p", ".", "c", "o", ".", "u", "k">>, <<"s", "h", "o", "p", ".", "c", "o", ".", "u", "k">>) }

AttrLists == UNION {[1..n -> Attributes] : n \in 0..MaxAttrs}

RECURSIVE RenderAttrs(_)
RenderAttrs(attrs) ==
    IF attrs = <<>> THEN <<>>
    ELSE <<";">> \o Head(attrs).text \o RenderAttrs(Tail(attrs))

RenderHeader(name_value, attrs) == name_value \o RenderAttrs(attrs)

(***************************************************************************)
(* read_body_with_limit (lib.rs:156-192).  The stream is the sequence of   *)
(* what response.chunk() yields: chunks of bytes, or a read error; after   *)
(* the last one it yields None.                                            *)
(*                                                                         *)
(* U64_MAX and ISIZE_MAX stand for u64::MAX and isize::MAX, scaled to the  *)
(* integers of the model; usize is 64 bits wide, so "as usize" keeps a     *)
(* u64.  Vec::with_capacity(n) panics with "capacity overflow" when n is   *)
(* above isize::MAX and aborts the process when the allocator cannot       *)
(* supply n bytes.                                                         *)
(***************************************************************************)
U64_MAX == 2147483647
ISIZE_MAX == 1073741823

Chunk(bytes) == [tag |-> "chunk", bytes |-> bytes]
ReadError == [tag |-> "error"]

Aborts == [tag |-> "Aborts"]
CapacityOverflow == [type |-> "str", value |-> "capacity overflow"]

BodyTooLargeError(limit) ==
    NativeError("invalid_request", "response body exceeds max_body_size",
                [limit |-> limit])

BodyReadError ==
    NativeError("transport_error", "failed to read response body",
                [reason |-> "read", debug |-> "read"])

\* lib.rs:160
LimitOf(max_size) == IF IsSome(max_size) THEN Unwrap(max_size) ELSE U64_MAX

\* lib.rs:168-171  the capacity the buffer starts with
InitialCapacity(content_length, limit) ==
    IF IsSome(content_length) /\ Unwrap(content_length) <= limit
        THEN Unwrap(content_length)
        ELSE 0

\* A check that also refuses a body of exactly the limit.
ExceedsLimitInclusive(body_len, chunk_len, limit) == body_len + chunk_len >= limit

\* lib.rs:181
ExceedsLimit(body_len, chunk_len, limit) == body_len + chunk_len > limit

\* lib.rs:173-191  the loop over the chunks
RECURSIVE ReadChunks(_, _, _, _)
ReadChunks(body, stream, limit, memory) ==
    IF stream = <<>>
        THEN Returns(Ok(body))
    ELSE IF Head(stream).tag = "error"
        THEN Returns(Err(BodyReadError))
    ELSE IF ExceedsLimit(Len(body), Len(Head(stream).bytes), limit)
        THEN Returns(Err(BodyTooLargeError(limit)))
    ELSE IF Len(body) + Len(Head(stream).bytes) > memory
        THEN Aborts
    ELSE ReadChunks(body \o Head(stream).bytes, Tail(stream), limit, memory)

read_body_with_limit(stream, content_length, max_size, memory) ==
    LET limit == LimitOf(max_size)
        capacity == InitialCapacity(content_length, limit)
    IN  IF capacity > ISIZE_MAX THEN Panics(CapacityOverflow)
        ELSE IF capacity > memory THEN Aborts
        ELSE ReadChunks(<<>>, stream, limit, memory)

(***************************************************************************)
(* Response bodies to read.  The i-th byte of a body is fixed, a stream is *)
(* given by the lengths of its chunks and the place of a read error.       *)
(***************************************************************************)
BodyByte(i) == IF i % 2 = 1 THEN "x" ELSE "y"

StreamEvents == (0..MaxChunkLen) \cup {-1}
StreamShapes == UNION {[1..n -> StreamEvents] : n \in 0..MaxChunks}

RECURSIVE MakeStream(_, _)
MakeStream(shape, offset) ==
    IF shape = <<>> THEN <<>>
    ELSE IF Head(shape) = -1
        THEN <<ReadError>> \o MakeStream(Tail(shape), offset)
        ELSE <<Chunk([i \in 1..Head(shape) |-> BodyByte(offset + i)])>>
                 \o MakeStream(Tail(shape), offset + Head(shape))

Streams == {MakeStream(shape, 0) : shape \in StreamShapes}

\* Memory is enough for every body of the model, or for any allocation.
MemorySizes == {MaxChunks * MaxChunkLen + 1, ISIZE_MAX}

ContentLengths ==
    {None, Some(0), Some(1), Some(MaxLimit), Some(MaxChunks * MaxChunkLen),
     Some(ISIZE_MAX), Some(U64_MAX)}

MaxSizes == {None} \cup {Some(n) : n \in 0..MaxLimit}

(***************************************************************************)
(* Requests.  A thread's call is either get_or_build_client on its own or  *)
(* nif_perform_request, which runs execute_request on a NativeRequest and  *)
(* an optional cookie jar.                                                 *)
(***************************************************************************)
\* http::Method::from_bytes accepts a non-empty token.
TokenBytes ==
    {UpperLetters[k] : k \in 1..Len(UpperLetters)}
        \cup {LowerLetters[k] : k \in 1..Len(LowerLetters)}
        \cup {"-", "_", "!", "~"}

\* A parse that takes every byte string.
Method_from_bytes_any(src) == Ok(src)

Method_from_bytes(src) ==
    IF src # <<>> /\ \A i \in 1..Len(src) : src[i] \in TokenBytes
        THEN Ok(src)
        ELSE Err("invalid HTTP method")

Methods == {<<"G", "E", "T">>, <<"G", " ", "T">>}

\* A target URL, written down with what request.url.parse::<http::Uri>()
\* makes of it: a URI with its host, or nothing.
Url(text, uri) == [text |-> text, uri |-> uri]

ExampleHost ==
    Host(<<"e", "x", "a", "m", "p", "l", "e", ".", "c", "o", "m">>, <<"e", "x", "a", "m", "p", "l", "e", ".", "c", "o", "m">>)

Urls ==
    {Url("https://example.com/", Some([host |-> ExampleHost])),
     Url("https://example.com/{}", None)}

\* A parser that accepts every URL.
parse_uri_lenient(url) == Some([host |-> ExampleHost])

parse_uri(url) == url.uri

TheJar == "jar"
CookieJars == {None, Some(TheJar)}

BodyLimits == {None, Some(1)}

NoRequest ==
    [entry |-> "none", emulation |-> None, insecure_skip_verify |-> FALSE,
     method |-> <<>>, url |-> Url("", None), cookie_jar |-> None,
     max_body_size_bytes |-> None]

KeyOf(t) == ClientKey(req[t].emulation, req[t].insecure_skip_verify)

InCall == {"read_lock", "read_get", "write_lock", "write_get", "build"}

InExecute ==
    {"build_request", "attach_cookies", "send", "capture_cookies", "read_body"}

InvalidMethodError(method) ==
    NativeError("invalid_request", "invalid HTTP method",
                [reason |-> "method", value |-> method])

\* A send failure reported as a malformed request.
SendFailedAsInvalid ==
    NativeError("invalid_request", "request execution failed",
                [reason |-> "send", debug |-> "send"])

SendFailedError ==
    NativeError("transport_error", "request execution failed",
                [reason |-> "send", debug |-> "send"])

\* wreq::cookie::Jar, by what it is handed: cookies(uri) gives back what
\* set_cookies stored.
jar_cookies(stored, uri) == stored

\* A jar whose store is overwritten by the last writer.
jar_set_cookies_overwriting(stored, set_cookies, uri) ==
    {set_cookies[i] : i \in 1..Len(set_cookies)}

\* A jar that stores nothing.
jar_set_cookies_lost(stored, set_cookies, uri) == stored

jar_set_cookies(stored, set_cookies, uri) ==
    stored \cup {set_cookies[i] : i \in 1..Len(set_cookies)}

(***************************************************************************)
(* Responses.  A Set-Cookie header is written down with the attributes it  *)
(* was made of; the code reads its bytes.                                  *)
(***************************************************************************)
SetCookie(name_value, attrs) ==
    [bytes |-> RenderHeader(name_value, attrs), attrs |-> attrs]

SetCookies ==
    {SetCookie(<<"s", "i", "d", "=", "1">>, <<AttrDomainExample>>),
     SetCookie(<<"s", "i", "d", "=", "1">>, <<AttrDomainCom>>),
     SetCookie(<<"s", "i", "d", "=", "1">>, <<AttrPathAccent, AttrDomainCom>>)}

SetCookieLists == UNION {[1..n -> SetCookies] : n \in 0..MaxSetCookies}

Responses ==
    [set_cookie : SetCookieLists,
     content_length : {None, Some(ISIZE_MAX), Some(U64_MAX)}]

\* The bodies a response streams: nothing, one byte, two bytes in two
\* chunks, a read error after the first chunk.
ResponseStreams ==
    {MakeStream(<<>>, 0), MakeStream(<<1>>, 0), MakeStream(<<1, 1>>, 0),
     MakeStream(<<1, -1>>, 0)}

NativeResponseMeta(resp, url) == [status |-> 200, url |-> url.text]

(***************************************************************************)
(* A call returns: the result goes to the caller and the thread is free    *)
(* for the next call.  Continue moves on inside the call.                  *)
(***************************************************************************)
Finish(t, r) ==
    /\ pc' = [pc EXCEPT ![t] = "idle"]
    /\ req' = [req EXCEPT ![t] = NoRequest]
    /\ result' = [result EXCEPT ![t] = r]
    /\ ex_client' = [ex_client EXCEPT ![t] = None]
    /\ ex_builder' = [ex_builder EXCEPT ![t] = None]
    /\ ex_response' = [ex_response EXCEPT ![t] = None]

Return(t, r) ==
    /\ Finish(t, r)
    /\ UNCHANGED returned

Continue(t, position) ==
    /\ pc' = [pc EXCEPT ![t] = position]
    /\ UNCHANGED <<req, result, returned, ex_client, ex_builder, ex_response>>

\* A write guard that is not dropped when the function returns.
DropWriteGuardLeaked(t) == lock_writer

\* lib.rs:65  the write guard `cache` goes out of scope at a return
DropWriteGuard(t) == IF lock_writer = t THEN NoThread ELSE lock_writer

\* lib.rs:61, 67, 100  get_or_build_client returns Ok(client): to the host,
\* or to execute_request (lib.rs:199), which goes on with the client.
Resolved(t, c) ==
    /\ returned' = returned \cup
                        {[emulation |-> req[t].emulation,
                          insecure_skip_verify |-> req[t].insecure_skip_verify,
                          client |-> c,
                          poisoned |-> lock_poisoned]}
    /\ IF req[t].entry = "nif_perform_request"
           THEN /\ pc' = [pc EXCEPT ![t] = "build_request"]
                /\ ex_client' = [ex_client EXCEPT ![t] = Some(c)]
                /\ UNCHANGED <<req, result, ex_builder, ex_response>>
           ELSE Finish(t, Protected(Ok(c)))

(***************************************************************************)
(* The host calls get_or_build_client(emulation, insecure_skip_verify)     *)
(* inside run_with_panic_protection.                                       *)
(***************************************************************************)
Call(t) ==
    /\ pc[t] = "idle"
    /\ calls < MaxCalls
    /\ \E emulation \in EmulationArgs, insecure_skip_verify \in BOOLEAN :
           req' = [req EXCEPT ![t] =
                       [NoRequest EXCEPT !.entry = "get_or_build_client",
                                         !.emulation = emulation,
                                         !.insecure_skip_verify = insecure_skip_verify]]
    /\ pc' = [pc EXCEPT ![t] = "read_lock"]
    /\ result' = [result EXCEPT ![t] = Pending]
    /\ calls' = calls + 1
    /\ faults' = [faults EXCEPT ![t] = None]
    /\ UNCHANGED <<cache, lock_writer, lock_readers, lock_poisoned,
                   built, returned>>
    /\ UNCHANGED <<pure_vars, exec_vars>>

\* lib.rs:58  CLIENT_CACHE.read().unwrap_or_else(|e| e.into_inner())
ReadLock(t) ==
    /\ pc[t] = "read_lock"
    /\ CanRead
    /\ IF LockResultGuard(lock_poisoned) = "guard"
           THEN /\ lock_readers' = lock_readers \cup {t}
                /\ Continue(t, "read_get")
                /\ UNCHANGED faults
           ELSE /\ Return(t, run_with_panic_protection(PoisonError))
                /\ UNCHANGED <<lock_readers, faults>>
    /\ UNCHANGED <<cache, lock_writer, lock_poisoned, calls, built>>
    /\ UNCHANGED <<pure_vars, jar>>

\* lib.rs:59-62  the fast path; the read guard is dropped at the end of the block
\* A read guard that lives on to the slow path.
DropReadGuardKept(t) == lock_readers

\* lib.rs:57-62  the read guard lives in the block of the fast path
DropReadGuard(t) == lock_readers \ {t}

ReadGet(t) ==
    /\ pc[t] = "read_get"
    /\ LET hit == CacheGet(cache, KeyOf(t))
       IN  IF IsSome(hit)
               THEN Resolved(t, Unwrap(hit))
               ELSE Continue(t, "write_lock")
    /\ lock_readers' = DropReadGuard(t)
    /\ UNCHANGED <<cache, lock_writer, lock_poisoned, calls, built, faults>>
    /\ UNCHANGED <<pure_vars, jar>>

\* lib.rs:65  CLIENT_CACHE.write().unwrap_or_else(|e| e.into_inner())
WriteLock(t) ==
    /\ pc[t] = "write_lock"
    /\ CanWrite
    /\ IF LockResultGuard(lock_poisoned) = "guard"
           THEN /\ lock_writer' = t
                /\ Continue(t, "write_get")
                /\ UNCHANGED faults
           ELSE /\ Return(t, run_with_panic_protection(PoisonError))
                /\ UNCHANGED <<lock_writer, faults>>
    /\ UNCHANGED <<cache, lock_readers, lock_poisoned, calls, built>>
    /\ UNCHANGED <<pure_vars, jar>>

\* A slow path that does not look again.
RecheckSkipped(map, key) == None

\* lib.rs:66-68  the second look under the write guard
RecheckHit(map, key) == CacheGet(map, key)

WriteGet(t) ==
    /\ pc[t] = "write_get"
    /\ LET hit == RecheckHit(cache, KeyOf(t))
       IN  IF IsSome(hit)
               THEN /\ Resolved(t, Unwrap(hit))
                    /\ lock_writer' = NoThread
               ELSE /\ Continue(t, "build")
                    /\ UNCHANGED lock_writer
    /\ UNCHANGED <<cache, lock_readers, lock_poisoned, calls, built, faults>>
    /\ UNCHANGED <<pure_vars, jar>>

\* lib.rs:70-100  resolve the profile, build, insert, return
Build(t) ==
    /\ pc[t] = "build"
    /\ LET emulation == req[t].emulation
           skip == req[t].insecure_skip_verify
       IN  IF IsSome(emulation) /\ ~ProfileResolves(Unwrap(emulation))
               THEN /\ Return(t, Protected(Err(UnknownProfileError(Unwrap(emulation)))))
                    /\ UNCHANGED <<cache, built>>
               ELSE \/ \* builder.build() fails
                       /\ Return(t, Protected(Err(BuildFailedError)))
                       /\ UNCHANGED <<cache, built>>
                    \/ \* builder.build() succeeds
                       LET client == BuildClient(ConfigureBuilder(emulation, skip),
                                                 NewClientId(built, KeyOf(t)))
                       IN  /\ cache' = CacheInsert(cache, KeyOf(t), client)
                           /\ built' = built \cup {[key |-> KeyOf(t), client |-> client]}
                           /\ Resolved(t, client)
    /\ lock_writer' = DropWriteGuard(t)
    /\ UNCHANGED <<lock_readers, lock_poisoned, calls, faults>>
    /\ UNCHANGED <<pure_vars, jar>>

(***************************************************************************)
(* A panic inside the call.  Unwinding drops the frame's guards: a read    *)
(* guard is released, a write guard is released and poisons the lock.      *)
(* catch_unwind turns the payload into a nif_panic error.                  *)
(***************************************************************************)
\* A write guard that unwinding does not drop.
UnwindWriterLeaked(t) == lock_writer

UnwindWriter(t) == IF lock_writer = t THEN NoThread ELSE lock_writer

Panic(t) ==
    /\ pc[t] \in InCall \cup InExecute
    /\ \E panic_info \in PanicPayloads :
           /\ Return(t, run_with_panic_protection(panic_info))
           /\ faults' = [faults EXCEPT ![t] = Some(panic_info)]
    /\ lock_readers' = lock_readers \ {t}
    /\ lock_writer' = UnwindWriter(t)
    /\ lock_poisoned' = (lock_poisoned \/ lock_writer = t)
    /\ UNCHANGED <<cache, calls, built>>
    /\ UNCHANGED <<pure_vars, jar>>

InitPool ==
    /\ cache = {}
    /\ lock_writer = NoThread
    /\ lock_readers = {}
    /\ lock_poisoned = FALSE
    /\ built = {}
    /\ returned = {}

InitCalls ==
    /\ pc = [t \in Threads |-> "idle"]
    /\ req = [t \in Threads |-> NoRequest]
    /\ result = [t \in Threads |-> Pending]
    /\ calls = 0
    /\ faults = [t \in Threads |-> None]

InitCookieIdle ==
    /\ ck_header = <<>>
    /\ ck_attrs = <<>>
    /\ ck_host = NoHost
    /\ ck_verdict = NotCalled

InitExecIdle ==
    /\ ex_client = [t \in Threads |-> None]
    /\ ex_builder = [t \in Threads |-> None]
    /\ ex_response = [t \in Threads |-> None]
    /\ jar = {}

InitBodyIdle ==
    /\ rb_stream = <<>>
    /\ rb_content_length = None
    /\ rb_max_size = None
    /\ rb_memory = 0
    /\ rb_result = NotCalled

Init ==
    /\ InitPool
    /\ InitCalls
    /\ InitCookieIdle
    /\ InitBodyIdle
    /\ InitExecIdle

Next ==
    \E t \in Threads :
        \/ Call(t)
        \/ ReadLock(t)
        \/ ReadGet(t)
        \/ WriteLock(t)
        \/ WriteGet(t)
        \/ Build(t)
        \/ Panic(t)

Spec == Init /\ [][Next]_vars

(***************************************************************************)
(* The client pool.                                                        *)
(***************************************************************************)
ArgsOf(r) == <<r.emulation, r.insecure_skip_verify>>

IsNifPanic(r) == IsErr(r) /\ r.error.type_name = "nif_panic"

\* Some step of get_or_build_client that thread t can take.
PoolStep(t) ==
    ReadLock(t) \/ ReadGet(t) \/ WriteLock(t) \/ WriteGet(t) \/ Build(t)

\* C1: for every key, every call that returns a client returns the same
\* client instance as every other call for that key, in any interleaving.
THM_C1 ==
    \A r1, r2 \in returned :
        ArgsOf(r1) = ArgsOf(r2) => r1.client = r2.client

\* Two calls for one key have returned, the second after the first.
W_C1 ==
    \E t1, t2 \in Threads :
        /\ t1 # t2
        /\ IsOk(result[t1]) /\ IsOk(result[t2])
        /\ result[t1].value = result[t2].value

\* C2: the client returned to a call with arguments (p, v) was built with
\* emulation p and with certificate verification on exactly when v is
\* false, and calls with different keys never get the same client.
THM_C2 ==
    /\ \A r \in returned :
           /\ r.client.emulation = r.emulation
           /\ r.client.cert_verification = ~r.insecure_skip_verify
    /\ \A r1, r2 \in returned :
           ArgsOf(r1) # ArgsOf(r2) => r1.client.id # r2.client.id

\* Clients were returned for the same profile under both policies.
W_C2 ==
    \E r1, r2 \in returned :
        /\ r1.emulation = r2.emulation
        /\ r1.insecure_skip_verify /\ ~r2.insecure_skip_verify

\* C3: at most one client is ever constructed for a key, the cache holds
\* at most one entry per key, and a thread builds only while it holds the
\* write guard and the cache has no entry for its key.
THM_C3 ==
    /\ \A b1, b2 \in built : b1.key = b2.key => b1 = b2
    /\ \A e1, e2 \in cache : e1.key = e2.key => e1 = e2
    /\ \A t \in Threads :
           pc[t] = "build" =>
               lock_writer = t /\ ~IsSome(CacheGet(cache, KeyOf(t)))

\* A thread that missed on the fast path holds the write guard and finds
\* the entry another thread inserted meanwhile.
W_C3 ==
    \E t \in Threads :
        /\ pc[t] = "write_get"
        /\ IsSome(CacheGet(cache, KeyOf(t)))

(***************************************************************************)
(* The cookie domain validator on its own: is_cookie_domain_safe is called *)
(* once on a header and a host.                                            *)
(***************************************************************************)
InitCookie ==
    /\ InitPool
    /\ InitCalls
    /\ ck_attrs \in AttrLists
    /\ \E name_value \in NameValues : ck_header = RenderHeader(name_value, ck_attrs)
    /\ ck_host \in RequestHosts
    /\ ck_verdict = NotCalled
    /\ InitBodyIdle
    /\ InitExecIdle

Validate ==
    /\ ck_verdict = NotCalled
    /\ ck_verdict' = is_cookie_domain_safe(ck_header, ck_host.text)
    /\ UNCHANGED <<ck_header, ck_attrs, ck_host, pool_vars, call_vars, body_vars,
                   exec_vars>>

NextCookie == Validate

SpecCookie == InitCookie /\ [][NextCookie]_vars

Validated == ck_verdict # NotCalled

DomainAttrs == SelectSeq(ck_attrs, LAMBDA a : a.is_domain)

\* The Domain attribute that counts: the first one that has a value.
DeclaredDomains == SelectSeq(ck_attrs, LAMBDA a : a.is_domain /\ a.norm # <<>>)

Extracted == extract_cookie_domain(ck_header)

ExtractedSome ==
    /\ from_utf8_ok(ck_header)
    /\ Extracted.tag = "Returns"
    /\ IsSome(Extracted.value)

\* C4 as claimed: a header whose Domain attribute is a public suffix is
\* rejected (is_cookie_domain_safe returns false) for every request host.
CE_C4 ==
    (Validated /\ DomainAttrs # <<>> /\ Head(DomainAttrs).suffix)
        => ck_verdict = Returns(FALSE)

CE_C6 ==
    (Validated /\ from_utf8_ok(ck_header) /\ DomainAttrs = <<>>)
        => ck_verdict = Returns(TRUE)

(***************************************************************************)
(* The body reader on its own: read_body_with_limit is called once on a    *)
(* response.                                                               *)
(***************************************************************************)
InitBody ==
    /\ InitPool
    /\ InitCalls
    /\ InitCookieIdle
    /\ rb_stream \in Streams
    /\ rb_content_length \in ContentLengths
    /\ rb_max_size \in MaxSizes
    /\ rb_memory \in MemorySizes
    /\ rb_result = NotCalled
    /\ InitExecIdle

ReadBodyWithLimit ==
    /\ rb_result = NotCalled
    /\ rb_result' = read_body_with_limit(rb_stream, rb_content_length,
                                         rb_max_size, rb_memory)
    /\ UNCHANGED <<rb_stream, rb_content_length, rb_max_size, rb_memory,
                   pool_vars, call_vars, cookie_vars, exec_vars>>

NextBody == ReadBodyWithLimit

SpecBody == InitBody /\ [][NextBody]_vars

RECURSIVE StreamLength(_)
StreamLength(stream) ==
    IF stream = <<>> THEN 0
    ELSE (IF Head(stream).tag = "chunk" THEN Len(Head(stream).bytes) ELSE 0)
             + StreamLength(Tail(stream))

StreamIsWhole == \A i \in 1..Len(rb_stream) : rb_stream[i].tag = "chunk"

WholeBody == [i \in 1..StreamLength(rb_stream) |-> BodyByte(i)]

\* C8: with max_size = N, a body of exactly N bytes is returned whole and a
\* body of N + 1 bytes fails with invalid_request, "response body exceeds
\* max_body_size" and the limit N in details, however the body is split
\* into chunks.
THM_C8 ==
    (rb_result # NotCalled /\ IsSome(rb_max_size) /\ StreamIsWhole) =>
        LET N == Unwrap(rb_max_size)
        IN  /\ StreamLength(rb_stream) = N =>
                   rb_result = Returns(Ok(WholeBody))
            /\ StreamLength(rb_stream) = N + 1 =>
                   rb_result = Returns(Err(BodyTooLargeError(N)))

\* A body of N + 1 bytes in several chunks was refused.
W_C8 ==
    /\ rb_result # NotCalled /\ IsSome(rb_max_size) /\ StreamIsWhole
    /\ Len(rb_stream) > 1
    /\ Unwrap(rb_max_size) > 0
    /\ StreamLength(rb_stream) = Unwrap(rb_max_size) + 1
    /\ rb_result = Returns(Err(BodyTooLargeError(Unwrap(rb_max_size))))

(***************************************************************************)
(* execute_request under run_with_panic_protection (lib.rs:131-154,        *)
(* 194-289).  Executions are run one at a time, by the threads of          *)
(* Executors; concurrent calls of the pool are the subject of Spec.        *)
(***************************************************************************)
Executors == {1}

\* lib.rs:139  nif_perform_request calls execute_request(request, body, cookie_jar)
Execute(t) ==
    /\ t \in Executors
    /\ pc[t] = "idle"
    /\ calls < MaxExecutions
    /\ \E emulation \in EmulationArgs, insecure_skip_verify \in BOOLEAN,
          method \in Methods, url \in Urls, cookie_jar \in CookieJars,
          max_body_size_bytes \in BodyLimits :
           req' = [req EXCEPT ![t] =
                       [entry |-> "nif_perform_request",
                        emulation |-> emulation,
                        insecure_skip_verify |-> insecure_skip_verify,
                        method |-> method,
                        url |-> url,
                        cookie_jar |-> cookie_jar,
                        max_body_size_bytes |-> max_body_size_bytes]]
    /\ pc' = [pc EXCEPT ![t] = "read_lock"]
    /\ result' = [result EXCEPT ![t] = Pending]
    /\ calls' = calls + 1
    /\ faults' = [faults EXCEPT ![t] = None]
    /\ UNCHANGED <<pool_vars, pure_vars, exec_vars>>

\* lib.rs:202-217  parse the method, start the builder, add the headers
BuildRequest(t) ==
    /\ pc[t] = "build_request"
    /\ IF IsOk(Method_from_bytes(req[t].method))
           THEN /\ ex_builder' = [ex_builder EXCEPT ![t] =
                                      Some([method |-> req[t].method,
                                            url |-> req[t].url,
                                            cookie |-> {}])]
                /\ pc' = [pc EXCEPT ![t] = "attach_cookies"]
                /\ UNCHANGED <<req, result, ex_client, ex_response>>
           ELSE Return(t, Protected(Err(InvalidMethodError(req[t].method))))
    /\ UNCHANGED <<cache, lock_writer, lock_readers, lock_poisoned, built,
                   returned, calls, faults, pure_vars, jar>>

\* Cookie steps that run whether or not a jar was given.
UsesJarAlways(t) == IsSome(parse_uri(req[t].url))

\* Whether the cookie steps run: a jar was given and the URL parses.
UsesJar(t) == IsSome(req[t].cookie_jar) /\ IsSome(parse_uri(req[t].url))

\* lib.rs:219-238  add the jar's cookies for the URL, then the body
AttachCookies(t) ==
    /\ pc[t] = "attach_cookies"
    /\ ex_builder' =
           [ex_builder EXCEPT ![t] =
               IF UsesJar(t)
                   THEN Some([Unwrap(ex_builder[t]) EXCEPT
                                  !.cookie = jar_cookies(jar, Unwrap(parse_uri(req[t].url)))])
                   ELSE ex_builder[t]]
    /\ pc' = [pc EXCEPT ![t] = "send"]
    /\ UNCHANGED <<req, result, ex_client, ex_response>>
    /\ UNCHANGED <<pool_vars, calls, faults, pure_vars, jar>>

\* lib.rs:240-246  builder.send(): an error, or one of the responses
SendOf(t, responses) ==
    /\ pc[t] = "send"
    /\ \/ Return(t, Protected(Err(SendFailedError)))
       \/ /\ \E resp \in responses :
                 ex_response' = [ex_response EXCEPT ![t] = Some(resp)]
          /\ pc' = [pc EXCEPT ![t] = "capture_cookies"]
          /\ UNCHANGED <<req, result, ex_client, ex_builder>>
    /\ UNCHANGED <<cache, lock_writer, lock_readers, lock_poisoned, built,
                   returned, calls, faults, pure_vars, jar>>

Send(t) == SendOf(t, Responses)

\* lib.rs:252-257  the filter, header by header
Verdicts(set_cookie, host) ==
    [i \in 1..Len(set_cookie) |-> is_cookie_domain_safe(set_cookie[i].bytes, host)]

\* lib.rs:248-263  store the response's cookies that pass the filter
CaptureCookies(t) ==
    /\ pc[t] = "capture_cookies"
    /\ IF UsesJar(t)
           THEN LET parsed_uri == Unwrap(parse_uri(req[t].url))
                    host == parsed_uri.host.text
                    headers == Unwrap(ex_response[t]).set_cookie
                    verdicts == Verdicts(headers, host)
                    panicking == {i \in 1..Len(headers) : verdicts[i].tag = "Panics"}
                IN  IF panicking # {}
                        THEN LET first == CHOOSE i \in panicking :
                                              \A j \in panicking : i <= j
                             IN  /\ Return(t, run_with_panic_protection(verdicts[first].payload))
                                 /\ faults' = [faults EXCEPT ![t] = Some(verdicts[first].payload)]
                                 /\ UNCHANGED jar
                        ELSE LET passing == {i \in 1..Len(headers) : verdicts[i].value}
                                 set_cookies == SelectSeq(headers,
                                                    LAMBDA h : is_cookie_domain_safe(h.bytes, host).value)
                             IN  /\ jar' = IF passing # {}
                                               THEN jar_set_cookies(jar, set_cookies, parsed_uri)
                                               ELSE jar
                                 /\ Continue(t, "read_body")
                                 /\ UNCHANGED faults
           ELSE /\ Continue(t, "read_body")
                /\ UNCHANGED <<jar, faults>>
    /\ UNCHANGED <<cache, lock_writer, lock_readers, lock_poisoned, built,
                   calls, pure_vars>>

\* lib.rs:265-288  the meta, then the body under the limit
ReadBody(t) ==
    /\ pc[t] = "read_body"
    /\ \E stream \in ResponseStreams, memory \in MemorySizes :
           LET resp == Unwrap(ex_response[t])
               outcome == read_body_with_limit(stream, resp.content_length,
                                               req[t].max_body_size_bytes, memory)
           IN  IF outcome.tag = "Returns"
                   THEN /\ IF IsOk(outcome.value)
                               THEN Return(t, Protected(Ok([meta |-> NativeResponseMeta(resp, req[t].url),
                                                            body |-> outcome.value.value])))
                               ELSE Return(t, Protected(outcome.value))
                        /\ UNCHANGED faults
               ELSE IF outcome.tag = "Panics"
                   THEN /\ Return(t, run_with_panic_protection(outcome.payload))
                        /\ faults' = [faults EXCEPT ![t] = Some(outcome.payload)]
               ELSE \* the process aborts
                    /\ pc' = [pc EXCEPT ![t] = "aborted"]
                    /\ UNCHANGED <<req, result, returned, ex_client, ex_builder,
                                   ex_response, faults>>
    /\ UNCHANGED <<cache, lock_writer, lock_readers, lock_poisoned, built,
                   calls, pure_vars, jar>>

NextExec ==
    \E t \in Threads :
        \/ Execute(t)
        \/ ReadLock(t)
        \/ ReadGet(t)
        \/ WriteLock(t)
        \/ WriteGet(t)
        \/ Build(t)
        \/ BuildRequest(t)
        \/ AttachCookies(t)
        \/ Send(t)
        \/ CaptureCookies(t)
        \/ ReadBody(t)
        \/ Panic(t)

SpecExec == Init /\ [][NextExec]_vars

\* What the validation is to decide for a header: it passes when it has no
\* Domain value, or its Domain value is not a public suffix and the host is
\* that domain or below it.
Declared(header) == SelectSeq(header.attrs, LAMBDA a : a.is_domain /\ a.norm # <<>>)

PassesValidation(header, host) ==
    \/ Declared(header) = <<>>
    \/ /\ ~Head(Declared(header)).suffix
       /\ \/ host.lower = Head(Declared(header)).norm
          \/ ends_with(host.lower, <<".">> \o Head(Declared(header)).norm)

PassingHeaders(t) ==
    IF UsesJar(t)
        THEN LET headers == Unwrap(ex_response[t]).set_cookie
                 host == Unwrap(parse_uri(req[t].url)).host
             IN  {headers[i] : i \in {j \in 1..Len(headers) :
                                          PassesValidation(headers[j], host)}}
        ELSE {}

\* C7 as claimed: the CaptureCookies step hands the jar the headers that
\* pass the validation, drops the others, and always goes on to ReadBody:
\* no header of the response ends the execution there.
CE_C7 ==
    [][\A t \in Threads :
           CaptureCookies(t) =>
               /\ pc'[t] = "read_body"
               /\ jar' = jar \cup PassingHeaders(t)]_vars

\* C9 as claimed: whatever the payload of a panic, the execution returns a
\* nif_panic error whose message is the payload's.
CE_C9 ==
    \A t \in Threads :
        IsSome(faults[t]) =>
            /\ IsNifPanic(result[t])
            /\ result[t].error.message = Unwrap(faults[t]).value

\* C9, amended: a panic at any step of an execution is caught, the
\* execution returns to the host with a nif_panic error, and the message is
\* the panic's message when the payload is a String or a &str, and
\* "unknown panic" for a payload of any other type.
THM_C9 ==
    \A t \in Threads :
        IsSome(faults[t]) =>
            /\ pc[t] = "idle"
            /\ IsNifPanic(result[t])
            /\ result[t].error.message =
                   IF Unwrap(faults[t]).type \in {"String", "str"}
                       THEN Unwrap(faults[t]).value
                       ELSE "unknown panic"

\* A panic of the code itself, with a &str payload, came back as nif_panic
\* with its message.
W_C9 ==
    \E t \in Threads :
        /\ faults[t] = Some(CapacityOverflow)
        /\ IsNifPanic(result[t])
        /\ result[t].error.message = "capacity overflow"

\* An execution is in progress on thread t.
Executing(t) == req[t].entry = "nif_perform_request"

\* The step ends thread t's call without a panic.
Ends(t) == pc[t] # "idle" /\ pc'[t] = "idle" /\ faults'[t] = None

UnknownProfile(t) ==
    IsSome(req[t].emulation) /\ Unwrap(req[t].emulation) \notin KnownProfiles

\* C11: an execution whose emulation profile name is unknown never gets a
\* client and never reaches the request (nothing is built, attached or
\* sent), and unless it panics it ends with invalid_request, "unknown
\* emulation profile", whatever its other fields and whatever the pool
\* holds.
THM_C11 ==
    [][\A t \in Threads :
           (Executing(t) /\ UnknownProfile(t)) =>
               /\ pc'[t] \notin InExecute
               /\ ex_client'[t] = None
               /\ Ends(t) =>
                      result'[t] = Err(UnknownProfileError(Unwrap(req[t].emulation)))]_vars

\* An execution with an unknown profile failed so while the pool held a
\* client an earlier execution had built.
W_C11 ==
    \E t \in Threads :
        /\ cache # {}
        /\ IsErr(result[t])
        /\ result[t].error.message = "unknown emulation profile"

\* The methods of the model that are HTTP method tokens.
TokenMethods == {<<"G", "E", "T">>}

InvalidMethod(t) == req[t].method \notin TokenMethods

AfterBuildRequest == {"attach_cookies", "send", "capture_cookies", "read_body"}

\* C12 as claimed: an execution whose method is not a valid token ends,
\* unless it panics, with invalid_request, "invalid HTTP method" and the
\* method in details, whatever its other fields.
CE_C12 ==
    [][\A t \in Threads :
           (Executing(t) /\ InvalidMethod(t) /\ Ends(t)) =>
               result'[t] = Err(InvalidMethodError(req[t].method))]_vars

\* C12, amended: an execution whose method is not a valid token never gets
\* past BuildRequest, so it sends nothing and neither reads nor writes the
\* jar; once its client is resolved it ends, unless it panics, with
\* invalid_request, "invalid HTTP method" and the method in details; when
\* ResolveClient fails first, that failure is the result.
THM_C12 ==
    [][\A t \in Threads :
           (Executing(t) /\ InvalidMethod(t)) =>
               /\ pc'[t] \notin AfterBuildRequest
               /\ ex_builder'[t] = None
               /\ jar' = jar
               /\ (Ends(t) /\ IsSome(ex_client[t])) =>
                      result'[t] = Err(InvalidMethodError(req[t].method))
               /\ (Ends(t) /\ ~IsSome(ex_client[t])) =>
                      /\ IsErr(result'[t])
                      /\ result'[t].error.message \in
                             {"unknown emulation profile",
                              "failed to build HTTP client"}]_vars

\* An execution was refused for its method while the jar held a cookie.
W_C12 ==
    \E t \in Threads :
        /\ jar # {}
        /\ IsErr(result[t])
        /\ result[t].error.message = "invalid HTTP method"
        /\ result[t].error.details.value # <<>>

\* C13: ReadBody is entered from CaptureCookies only, and while an
\* execution reads the body, and when that fails, every cookie of its
\* response that passed the validation is in the jar: a failure in ReadBody
\* takes nothing back.
THM_C13 ==
    [][\A t \in Threads :
           /\ (pc[t] # "read_body" /\ pc'[t] = "read_body") =>
                  pc[t] = "capture_cookies"
           /\ pc[t] = "read_body" =>
                  /\ PassingHeaders(t) \subseteq jar
                  /\ jar \subseteq jar']_vars

\* The first execution stored a cookie and then failed on the body.
W_C13 ==
    \E t \in Threads :
        /\ calls = 1
        /\ jar # {}
        /\ IsErr(result[t])
        /\ result[t].error.message \in {"response body exceeds max_body_size",
                                         "failed to read response body"}

\* C14 as claimed: whatever Content-Length the response advertises, the
\* call ends as it does for the same chunks and max_size with no
\* Content-Length at all: the pre-sizing changes no outcome and causes no
\* panic and no allocation failure.
CE_C14 ==
    rb_result # NotCalled =>
        rb_result = read_body_with_limit(rb_stream, None, rb_max_size, rb_memory)

\* C15: when builder.send() fails (the receive-timeout expired, the
\* network failed), the execution ends there with transport_error,
\* "request execution failed" and details carrying reason and debug: the
\* result holds no status, headers or body, and the jar is as it was.
THM_C15 ==
    [][\A t \in Threads :
           (pc[t] = "send" /\ Ends(t)) =>
               /\ IsErr(result'[t])
               /\ result'[t].error.type_name = "transport_error"
               /\ result'[t].error.message = "request execution failed"
               /\ DOMAIN result'[t].error.details = {"reason", "debug"}
               /\ ex_response'[t] = None
               /\ jar' = jar]_vars

\* A send failed while the jar held a cookie.
W_C15 ==
    \E t \in Threads :
        /\ jar # {}
        /\ IsErr(result[t])
        /\ result[t].error.message = "request execution failed"

\* C16 as claimed: while a thread constructs the client of a missing key,
\* a call for another key that is cached can take the read lock for its
\* lookup.
CE_C16 ==
    \A a, b \in Threads :
        (/\ pc[a] = "build"
         /\ pc[b] = "read_lock"
         /\ KeyOf(b) # KeyOf(a)
         /\ IsSome(CacheGet(cache, KeyOf(b)))) => ENABLED ReadLock(b)

\* C17: the pool only grows: every client that a build constructed and
\* inserted is still the entry of its key, and every client that a call
\* returned is the entry of the call's key, after any calls that returned,
\* failed or panicked.
THM_C17 ==
    /\ \A b \in built : b \in cache
    /\ \A r \in returned :
           [key |-> [emulation |-> r.emulation,
                     insecure_skip_verify |-> r.insecure_skip_verify],
            client |-> r.client] \in cache

\* A key has its entry after a call failed and a call panicked under the
\* write guard.
W_C17 ==
    /\ cache # {}
    /\ lock_poisoned
    /\ \E t \in Threads : IsErr(result[t]) /\ ~IsNifPanic(result[t])

\* lib.rs:194-289  the order of the positions of one execution
Positions ==
    <<"read_lock", "read_get", "write_lock", "write_get", "build",
      "build_request", "attach_cookies", "send", "capture_cookies", "read_body">>

Rank(position) == CHOOSE k \in 1..Len(Positions) : Positions[k] = position

\* C18: an execution is a single pass: every step of it either moves to a
\* later position, so that no position is entered twice and the request is
\* sent at most once, or ends the execution with a result, which after a
\* failure is an error.
CE_C18 ==
    [][\A t \in Threads :
          (Executing(t) /\ pc'[t] # pc[t]) =>
              \/ /\ pc'[t] = "idle"
                 /\ IsOk(result'[t]) \/ IsErr(result'[t])
              \/ /\ \E k \in 1..Len(Positions) : Positions[k] = pc'[t]
                 /\ Rank(pc'[t]) > Rank(pc[t])]_vars

(***************************************************************************)
(* Executions that share one jar.  Every thread runs execute_request once, *)
(* with the jar, against servers that set one of two cookies of different  *)
(* names.  The jar's own operations (lib.rs:222, 260) are single steps;    *)
(* nothing in execute_request holds a lock from one to the other.          *)
(***************************************************************************)
SharedSetCookies ==
    {SetCookie(<<"s", "i", "d", "=", "1">>, <<AttrDomainExample>>),
     SetCookie(<<"x", "=", "1">>, <<AttrDomainExample>>)}

SharedResponses ==
    [set_cookie : UNION {[1..n -> SharedSetCookies] : n \in 0..1},
     content_length : {None}]

SharedUrl == CHOOSE url \in Urls : IsSome(parse_uri(url))

\* lib.rs:139  nif_perform_request, once on every thread, with the jar
ExecuteShared(t) ==
    /\ pc[t] = "idle"
    /\ result[t] = Pending
    /\ \E method \in Methods :
           req' = [req EXCEPT ![t] =
                       [entry |-> "nif_perform_request",
                        emulation |-> None,
                        insecure_skip_verify |-> FALSE,
                        method |-> method,
                        url |-> SharedUrl,
                        cookie_jar |-> Some(TheJar),
                        max_body_size_bytes |-> Some(1)]]
    /\ pc' = [pc EXCEPT ![t] = "read_lock"]
    /\ UNCHANGED result
    /\ calls' = calls + 1
    /\ faults' = [faults EXCEPT ![t] = None]
    /\ UNCHANGED <<pool_vars, pure_vars, exec_vars>>

SendShared(t) == SendOf(t, SharedResponses)

\* The steps of a running execution, but for CaptureCookies.
StepShared(t) ==
    \/ ReadLock(t)
    \/ ReadGet(t)
    \/ WriteLock(t)
    \/ WriteGet(t)
    \/ Build(t)
    \/ BuildRequest(t)
    \/ AttachCookies(t)
    \/ SendShared(t)
    \/ ReadBody(t)

\* Weak fairness of CaptureCookies(t), written without ENABLED: the step is
\* enabled exactly at "capture_cookies", every step of it leaves that
\* position, and no other thread moves t.
CaptureCookiesFair(t) == []<>(pc[t] # "capture_cookies")

NextShared ==
    \E t \in Threads :
        \/ ExecuteShared(t)
        \/ ReadLock(t)
        \/ ReadGet(t)
        \/ WriteLock(t)
        \/ WriteGet(t)
        \/ Build(t)
        \/ BuildRequest(t)
        \/ AttachCookies(t)
        \/ SendShared(t)
        \/ CaptureCookies(t)
        \/ ReadBody(t)

\* A thread that is inside a call keeps running.
SpecShared ==
    /\ Init
    /\ [][NextShared]_vars
    /\ \A t \in Threads : WF_vars(StepShared(t)) /\ CaptureCookiesFair(t)

AttrValue(a) ==
    LET attr == trim(a.text)
    IN  trim(SubSeq(attr, PrefixLen + 1, Len(attr)))

\* C20 as claimed: for a header that is text, extract_cookie_domain returns
\* the trimmed value of the first attribute named Domain, whatever the
\* case of the name and whatever the name of the cookie, and nothing when
\* no attribute is named Domain.
CE_C20 ==
    (Validated /\ from_utf8_ok(ck_header)) =>
        Extracted = Returns(IF DomainAttrs = <<>>
                                THEN None
                                ELSE Some(AttrValue(Head(DomainAttrs))))

\* A value without its first byte when that byte is a dot.
StripOneDot(value) ==
    IF value # <<>> /\ Head(value) = "." THEN Tail(value) ELSE value

\* lib.rs:310-320  the public-suffix and host checks on a normalized domain
Judged(effective_domain, host) ==
    /\ IsSome(psl_domain(effective_domain))
    /\ HostMatchesDomain(host, effective_domain)

\* C21 as claimed: the declared Domain is judged as its value without one
\* leading dot, lower-cased: a second leading dot stays and is judged.
CE_C21 ==
    (Validated /\ ExtractedSome) =>
        ck_verdict =
            Returns(Judged(to_lowercase(StripOneDot(AttrValue(Head(DeclaredDomains)))),
                           ck_host.lower))

\* The header was rendered from the name=value pair that is not text.
NotText == Len(ck_header) >= 2 /\ SubSeq(ck_header, 1, 2) = <<"FF", "FE">>

\* C22: a header whose bytes are not valid text is rejected
\* (is_cookie_domain_safe returns false) for every request host, with or
\* without a Domain attribute among its bytes.
THM_C22 == (Validated /\ NotText) => ck_verdict = Returns(FALSE)

\* A rejected header that is not text and carries the Domain attribute of
\* the request host itself.
W_C22 ==
    /\ Validated /\ NotText
    /\ DomainAttrs # <<>> /\ Head(DomainAttrs) = AttrDomainExample
    /\ ck_host.lower = AttrDomainExample.norm
    /\ ck_verdict = Returns(FALSE)

\* The execution was given a jar and a URL that is not a URI.
JarWithoutUri(t) == IsSome(req[t].cookie_jar) /\ req[t].url.uri = None

\* C23: in an execution that was given a jar and a URL that does not parse
\* as a URI, no step changes the jar and, unless a fault of a dependency
\* unwinds the step, AttachCookies goes on to Send with no cookie added to
\* the request and CaptureCookies goes on to ReadBody with no result:
\* neither step ends the execution.
THM_C23 ==
    [][\A t \in Threads :
          (Executing(t) /\ JarWithoutUri(t)) =>
              /\ jar' = jar
              /\ \/ faults'[t] # None
                 \/ /\ pc[t] = "attach_cookies" =>
                           /\ pc'[t] = "send"
                           /\ Unwrap(ex_builder'[t]).cookie = {}
                    /\ pc[t] = "capture_cookies" =>
                           /\ pc'[t] = "read_body"
                           /\ result'[t] = Pending]_vars

\* Such an execution is at ReadBody: the jar held a cookie that was not
\* sent, and the response set cookies.
W_C23 ==
    \E t \in Threads :
        /\ Executing(t) /\ JarWithoutUri(t)
        /\ pc[t] = "read_body"
        /\ jar # {}
        /\ Unwrap(ex_builder[t]).cookie = {}
        /\ Unwrap(ex_response[t]).set_cookie # <<>>

\* The errors execute_request returns for the request of thread t
\* (lib.rs:77-81, 92-96, 203-207, 241-245, 176-179, 182-186).
ClosureErrors(t) ==
    {UnknownProfileError(profile_name) : profile_name \in ProfileNames} \cup
    {BuildFailedError, InvalidMethodError(req[t].method), SendFailedError,
     BodyReadError, BodyTooLargeError(LimitOf(req[t].max_body_size_bytes))}

\* C24: an execution that ends without a fault returns what execute_request
\* returned: the Ok value with the response's meta, or the error with the
\* kind, message and details execute_request gave it, never nif_panic.
THM_C24 ==
    [][\A t \in Threads :
          (Executing(t) /\ Ends(t)) =>
              /\ ~IsNifPanic(result'[t])
              /\ IsOk(result'[t]) =>
                     /\ pc[t] = "read_body"
                     /\ result'[t].value.meta =
                            NativeResponseMeta(Unwrap(ex_response[t]), req[t].url)
              /\ IsErr(result'[t]) => result'[t].error \in ClosureErrors(t)]_vars

\* An execution without a fault returned Ok with a body.
W_C24 ==
    \E t \in Threads :
        /\ faults[t] = None
        /\ IsOk(result[t])
        /\ result[t].value.body # <<>>

\* C25 as claimed: for every header that is valid text and every request
\* host, is_cookie_domain_safe returns true or false, and the call leaves
\* the jar and the client pool as they were.
CE_C25 ==
    (Validated /\ ~NotText) =>
        /\ ck_verdict \in {Returns(TRUE), Returns(FALSE)}
        /\ jar = {}
        /\ cache = {} /\ lock_writer = NoThread /\ lock_readers = {}

\* C26: a call of get_or_build_client that fails in the build leaves the
\* cache and the clients built as they were, with no entry for its key,
\* holds no lock afterwards, and returns invalid_request for an unknown
\* profile and transport_error for a failed construction.
THM_C26 ==
    [][\A t \in Threads :
          (pc[t] = "build" /\ Ends(t) /\ IsErr(result'[t])) =>
              /\ cache' = cache /\ built' = built
              /\ CacheGet(cache', KeyOf(t)) = None
              /\ lock_writer' = NoThread /\ t \notin lock_readers'
              /\ result'[t].error.type_name =
                     IF UnknownProfile(t) THEN "invalid_request" ELSE "transport_error"]_vars

\* After a call failed on an unknown profile, another call with that profile
\* is building again.
W_C26 ==
    \E t, u \in Threads :
        /\ IsErr(result[t])
        /\ result[t].error.message = "unknown emulation profile"
        /\ pc[u] = "build"
        /\ req[u].emulation = Some(result[t].error.details.value)

\* C27: the jar changes only in the CaptureCookies step of an execution
\* that was given the jar and goes on to ReadBody: no other step, no
\* execution without a jar and no execution that ends before CaptureCookies
\* changes it.
THM_C27 ==
    [][/\ jar' # jar =>
             \E t \in Threads :
                 /\ Executing(t) /\ IsSome(req[t].cookie_jar)
                 /\ pc[t] = "capture_cookies" /\ pc'[t] = "read_body"
       /\ \A t \in Threads :
             (Executing(t) /\ pc'[t] = "idle"
                 /\ pc[t] \in InCall \cup {"build_request", "attach_cookies", "send"})
                 => jar' = jar]_vars

\* An execution without a jar is at ReadBody; its response set a cookie
\* that passes the validation, and the jar is empty.
W_C27 ==
    \E t \in Threads :
        /\ Executing(t) /\ req[t].cookie_jar = None
        /\ IsSome(parse_uri(req[t].url))
        /\ pc[t] = "read_body"
        /\ \E i \in 1..Len(Unwrap(ex_response[t]).set_cookie) :
               PassesValidation(Unwrap(ex_response[t]).set_cookie[i],
                                Unwrap(parse_uri(req[t].url)).host)
        /\ jar = {}

\* The host calls get_or_build_client(emulation, false): one key for each
\* profile argument.
CallFair(t) ==
    /\ pc[t] = "idle"
    /\ calls < MaxCalls
    /\ \E emulation \in EmulationArgs :
           req' = [req EXCEPT ![t] =
                       [NoRequest EXCEPT !.entry = "get_or_build_client",
                                         !.emulation = emulation]]
    /\ pc' = [pc EXCEPT ![t] = "read_lock"]
    /\ result' = [result EXCEPT ![t] = Pending]
    /\ calls' = calls + 1
    /\ faults' = [faults EXCEPT ![t] = None]
    /\ UNCHANGED <<cache, lock_writer, lock_readers, lock_poisoned,
                   built, returned>>
    /\ UNCHANGED <<pure_vars, exec_vars>>

NextFair ==
    \E t \in Threads :
        \/ CallFair(t)
        \/ ReadLock(t)
        \/ ReadGet(t)
        \/ WriteLock(t)
        \/ WriteGet(t)
        \/ Build(t)
        \/ Panic(t)

\* The pool when every thread inside a call keeps running.
SpecFair == Init /\ [][NextFair]_vars /\ \A t \in Threads : WF_vars(PoolStep(t))

\* C28: a thread that asks for the write lock holds no read guard, and
\* under fair scheduling every call, on any mix of keys and with any calls
\* beside it, returns.
THM_C28 ==
    /\ [](\A t \in Threads : pc[t] \in {"write_lock", "write_get", "build"}
                                  => t \notin lock_readers)
    /\ \A t \in Threads : (pc[t] \in InCall) ~> (pc[t] = "idle")

\* Two calls with different keys are on the slow path at once: one holds
\* the write guard, the other waits for it.
W_C28 ==
    \E t, u \in Threads :
        /\ pc[t] = "build" /\ pc[u] = "write_lock"
        /\ KeyOf(t) # KeyOf(u)
        /\ lock_readers = {}

\* C10: a caught panic leaves no guard behind and the pool usable: the
\* lock is held only by threads inside their critical sections, a call
\* ends in nif_panic only if it panicked itself, some thread inside a call
\* can always step, and the cache keeps at most one entry per key, each
\* configured as its key says.
THM_C10 ==
    /\ lock_writer # NoThread => pc[lock_writer] \in {"write_get", "build"}
    /\ \A t \in lock_readers : pc[t] = "read_get"
    /\ \A t \in Threads : IsNifPanic(result[t]) => IsSome(faults[t])
    /\ (\E t \in Threads : pc[t] \in InCall) =>
           (\E t \in Threads : ENABLED PoolStep(t))
    /\ \A e1, e2 \in cache : e1.key = e2.key => e1 = e2
    /\ \A e \in cache :
           /\ e.client.emulation = e.key.emulation
           /\ e.client.cert_verification = ~e.key.insecure_skip_verify

\* A panic under the write guard poisoned the lock and a later call
\* returned a client.
W_C10 ==
    /\ lock_poisoned
    /\ \E r \in returned : r.poisoned

====
